---- MODULE Spec2Model ----
(***************************************************************************)
(* Model of the context-augmentation and multi-provider completion         *)
(* pipeline of the AI chat platform backend (Gemini-private/backend).      *)
(*                                                                         *)
(*   Spec     one completion request at a time through                     *)
(*            api/main.py chat_completion -> ChatService.chat_completion   *)
(*            -> AIClient.chat_completion, with the chat message table.    *)
(*   SpecDoc  the document store of rag/service.py and create_memory of    *)
(*            memory/service.py, with the chunk and memory tables.         *)
(*   SpecRag  the document store with search_documents.                    *)
(*   SpecChunk    shared/utils.py chunk_text, one loop iteration at a time.*)
(*   SpecMem      the memory store's writes and ChatService.delete_chat.   *)
(*   SpecRecall   the memory store with search_memories.                   *)
(*   SpecExtract  MemoryService.extract_memories_from_conversation.        *)
(*   SpecTitle    ChatService.generate_chat_title beside one non-streaming *)
(*            completion request at a time and delete_chat.                *)
(*   SpecPair     two non-streaming completion requests in flight at once. *)
(*                                                                         *)
(* External collaborators (embedding model, providers, web search, the     *)
(* relational store) answer nondeterministically: success with a value or  *)
(* an exception.                                                           *)
(***************************************************************************)
EXTENDS Integers, Sequences, FiniteSets, TLC

VARIABLES
    settings,       \* process-wide configuration read once (shared/config.py)
    chats,          \* chats table: chat id -> row
    messages,       \* messages table, in insertion order
    clock,          \* ticks of datetime.utcnow() / fresh uuid4() values
    request,        \* per handler: the ChatCompletionRequest being handled
    pc,             \* per handler: position in the request handler
    ctx,            \* per handler: memory_context, rag_context, web_context
    fetch,          \* per handler: progress of each context fetch
    calls,          \* per handler: external calls made and clients constructed
    prompt,         \* per handler: system_prompt built by ChatService
    sent,           \* per handler: request handed to the provider
    result,         \* per handler: value returned by AIClient.chat_completion
    events,         \* per handler: events delivered to the stream consumer
    stream,         \* per handler: state of the event stream
    outcome,        \* per handler: how the request ended
    saved,          \* per handler: id of the assistant Message just added
    logAtStart,     \* per handler: the messages table when the request arrived
    documents,      \* documents table
    chunks,         \* document_chunks table
    memories,       \* memories table
    uuid,           \* number of uuid4() values issued for documents, chunks, memories
    lastOp,         \* document and memory store: the last operation and its inputs
    chunker         \* one call of chunk_text: its arguments, locals and position

vars == <<settings, chats, messages, clock, request, pc, ctx, fetch, calls,
          prompt, sent, result, events, stream, outcome, saved, logAtStart,
          documents, chunks, memories, uuid, lastOp, chunker>>

reqVars == <<settings, chats, messages, clock, request, pc, ctx, fetch, calls,
             prompt, sent, result, events, stream, outcome, saved, logAtStart>>

docVars == <<documents, chunks, memories, uuid, lastOp>>

chunkVars == <<chunker>>

----------------------------------------------------------------------------
(* Bounds *)

MaxLog == 3             \* rows of the messages table
MaxDeltas == 2          \* text deltas a provider stream yields
MaxIds == 4             \* rows ever created in the document and memory tables
MaxDocs == 2            \* rows of the documents table
MaxMemories == 1        \* rows of the memories table

(* Python's None *)
None == "None"

(* A nullable numeric column: NULL, or a value *)
Null == {}
Some(x) == {x}

----------------------------------------------------------------------------
(* Strings whose prefix matters are sequences of characters. *)

StartsWith(s, p) ==
    /\ Len(s) >= Len(p)
    /\ SubSeq(s, 1, Len(p)) = p

CLAUDE == <<"c", "l", "a", "u", "d", "e">>
GEMINI == <<"g", "e", "m", "i", "n", "i">>
GEMMA  == <<"g", "e", "m", "m", "a">>

ModelIds ==
    { CLAUDE \o <<"-", "o", "p", "u", "s">>,
      GEMINI \o <<"-", "p", "r", "o">>,
      GEMMA \o <<"-", "7", "b">>,
      <<"g", "p", "t", "-", "4">> }

(* AIClient.chat_completion: the closed prefix dispatch. *)
AdapterOf(model) ==
    IF StartsWith(model, CLAUDE) THEN "claude"
    ELSE IF StartsWith(model, GEMINI) THEN "gemini"
    ELSE IF StartsWith(model, GEMMA) THEN "gemma"
    ELSE "unsupported"

----------------------------------------------------------------------------
(* The stores a request sees. *)

Handlers == {"r1", "r2"}        \* the request handlers that may be in flight
Single == {"r1"}                \* the handler of a specification with one request at a time
Users == {"u1", "u2"}
Caller == "u1"                  \* the authenticated principal of the requests
ChatIds == {"c1", "c2", "c3"}   \* c1: the caller's, c2: another user's, c3: absent

Sources == {"memory", "rag", "web"}

MessageLists ==
    { << >>,
      <<[role |-> "user", content |-> "q1"],
        [role |-> "assistant", content |-> "a1"],
        [role |-> "user", content |-> "q2"]>> }

Requests ==
    [ user_id : {Caller},
      chat_id : ChatIds \cup {None},
      model : ModelIds,
      messages : MessageLists,
      stream : BOOLEAN,
      use_rag : BOOLEAN,
      use_web_grounding : BOOLEAN,
      system_prompt : {None, "base"} ]

NoCalls == [clients |-> 0, embed |-> 0, search |-> 0, dispatch |-> 0,
            provider |-> 0, deltas |-> 0]
NoCtx == [memory |-> None, rag |-> None, web |-> None]
NoFetch == [memory |-> "idle", rag |-> "idle", web |-> "idle"]
NoResult == [kind |-> "none"]

InitStores ==
    /\ settings \in [ANTHROPIC_API_KEY : BOOLEAN, VERTEX_AI_PROJECT : BOOLEAN,
                    GOOGLE_SEARCH : BOOLEAN]
    /\ chats = [c \in {"c1", "c2"} |->
                  [user_id |-> IF c = "c1" THEN "u1" ELSE "u2", updated_at |-> 0]]
    /\ messages = << >>
    /\ clock = 1

InitHandlers ==
    /\ request = [r \in Handlers |-> None]
    /\ pc = [r \in Handlers |-> "idle"]
    /\ ctx = [r \in Handlers |-> NoCtx]
    /\ fetch = [r \in Handlers |-> NoFetch]
    /\ calls = [r \in Handlers |-> NoCalls]
    /\ prompt = [r \in Handlers |-> << >>]
    /\ sent = [r \in Handlers |-> None]
    /\ result = [r \in Handlers |-> NoResult]
    /\ events = [r \in Handlers |-> << >>]
    /\ stream = [r \in Handlers |-> "none"]
    /\ outcome = [r \in Handlers |-> "pending"]
    /\ saved = [r \in Handlers |-> None]
    /\ logAtStart = [r \in Handlers |-> << >>]

NoOp == [op |-> "none"]

InitDocs ==
    /\ documents = << >>
    /\ chunks = {}
    /\ memories = {}
    /\ uuid = 0
    /\ lastOp = NoOp

(* No call of chunk_text is in progress. *)
NoChunker == [pc |-> "idle"]

Init == InitStores /\ InitHandlers /\ InitDocs /\ chunker = NoChunker

----------------------------------------------------------------------------
(* api/main.py chat_completion: the context fetches, in program order. *)

(* Where the handler goes once the fetch of source s is over. *)
AfterFetch(req, s) ==
    IF s = "start" /\ req.use_rag THEN "rag_embed"
    ELSE IF s \in {"start", "rag"} /\ req.use_web_grounding THEN "web_search"
    ELSE IF s \in {"start", "rag", "web"} THEN "mem_embed"
    ELSE "dispatch"

(* The fetch that is in flight at a position of the handler. *)
StartFetch(f, p) ==
    IF p \in {"rag_embed"} THEN [f EXCEPT !.rag = "inflight"]
    ELSE IF p = "web_search" THEN [f EXCEPT !.web = "inflight"]
    ELSE IF p = "mem_embed" THEN [f EXCEPT !.memory = "inflight"]
    ELSE f

(* Lines 274-290: a request of the set reqs arrives; ChatService, MemoryService and
   RAGService each construct an AIClient, which constructs the Anthropic
   client when the key is configured. *)
Accept(r, reqs) ==
    /\ pc[r] = "idle"
    /\ Len(messages) + 2 <= MaxLog
    /\ \E req \in reqs :
        /\ request' = [request EXCEPT ![r] = req]
        /\ pc' = [pc EXCEPT ![r] = AfterFetch(req, "start")]
        /\ fetch' = [fetch EXCEPT ![r] = StartFetch(NoFetch, AfterFetch(req, "start"))]
    /\ calls' = [calls EXCEPT ![r] = [NoCalls EXCEPT !.clients = 3]]
    /\ logAtStart' = [logAtStart EXCEPT ![r] = messages]
    /\ UNCHANGED <<settings, chats, messages, clock, ctx, prompt, sent, result,
                   events, stream, outcome, saved, docVars, chunkVars>>

Receive(r) == Accept(r, Requests)

(* The fetch of source s ends with context c and the handler moves on. *)
FetchDone(r, s, c) ==
    LET next == AfterFetch(request[r], s) IN
    /\ ctx' = [ctx EXCEPT ![r][s] = c]
    /\ fetch' = [fetch EXCEPT ![r] = StartFetch([@ EXCEPT ![s] = "done"], next)]
    /\ pc' = [pc EXCEPT ![r] = next]
    /\ UNCHANGED outcome

(* An exception leaves the fetch of source s and the handler. *)
FetchRaise(r, s) ==
    /\ fetch' = [fetch EXCEPT ![r][s] = "failed"]
    /\ pc' = [pc EXCEPT ![r] = "failed"]
    /\ outcome' = [outcome EXCEPT ![r] = "StorageError"]
    /\ UNCHANGED ctx

(* RAGService.search_documents lines 195-200: the query embedding; a failure
   is caught and the search returns [], so the context is "". *)
RagEmbed(r) ==
    /\ pc[r] = "rag_embed"
    /\ calls' = [calls EXCEPT ![r].embed = @ + 1]
    /\ \/ /\ pc' = [pc EXCEPT ![r] = "rag_query"]
          /\ UNCHANGED <<ctx, fetch, outcome>>
       \/ FetchDone(r, "rag", "")
    /\ UNCHANGED <<settings, chats, messages, clock, request, prompt,
                   sent, result, events, stream, saved, logAtStart, docVars, chunkVars>>

(* RAGService.search_documents lines 223-244 and get_rag_context_for_query:
   the similarity query returns rows (formatted into a context), none (""),
   or raises, which nothing catches. *)
RagQuery(r) ==
    /\ pc[r] = "rag_query"
    /\ \/ \E c \in {"", "docs"} : FetchDone(r, "rag", c)
       \/ FetchRaise(r, "rag")
    /\ UNCHANGED <<settings, chats, messages, clock, request, calls,
                   prompt, sent, result, events, stream, saved, logAtStart, docVars, chunkVars>>

(* WebGroundingService.search and get_grounding_context: unconfigured returns
   [] without a call; otherwise one HTTP call, every failure caught. *)
WebSearch(r) ==
    /\ pc[r] = "web_search"
    /\ IF settings.GOOGLE_SEARCH
       THEN /\ calls' = [calls EXCEPT ![r].search = @ + 1]
            /\ \E c \in {"", "web"} : FetchDone(r, "web", c)
       ELSE /\ UNCHANGED calls
            /\ FetchDone(r, "web", "")
    /\ UNCHANGED <<settings, chats, messages, clock, request, prompt,
                   sent, result, events, stream, saved, logAtStart, docVars, chunkVars>>

(* MemoryService.search_memories lines 149-154. *)
MemEmbed(r) ==
    /\ pc[r] = "mem_embed"
    /\ calls' = [calls EXCEPT ![r].embed = @ + 1]
    /\ \/ /\ pc' = [pc EXCEPT ![r] = "mem_query"]
          /\ UNCHANGED <<ctx, fetch, outcome>>
       \/ FetchDone(r, "memory", "")
    /\ UNCHANGED <<settings, chats, messages, clock, request, prompt,
                   sent, result, events, stream, saved, logAtStart, docVars, chunkVars>>

(* MemoryService.search_memories lines 173-178 and
   get_relevant_memories_for_query. *)
MemQuery(r) ==
    /\ pc[r] = "mem_query"
    /\ \/ \E c \in {"", "mem"} : FetchDone(r, "memory", c)
       \/ FetchRaise(r, "memory")
    /\ UNCHANGED <<settings, chats, messages, clock, request, calls,
                   prompt, sent, result, events, stream, saved, logAtStart, docVars, chunkVars>>

----------------------------------------------------------------------------
(* chat/service.py ChatService.chat_completion and chat/ai_client.py *)

(* Lines 186-196: the base prompt, then one labeled section per context that
   is truthy, in this order.  A prompt is the sequence of its parts; "" is
   the empty sequence. *)
(* Mutant: an empty context still gets its labeled section. *)
SectionOfAnyContext(label, c) ==
    IF c = None THEN << >> ELSE <<label, c>>

Section(label, c) ==
    IF c \in {None, ""} THEN << >> ELSE <<label, c>>

BuildPrompt(base, c) ==
    (IF base = None THEN << >> ELSE <<base>>)
        \o Section("## User Memory Context", c.memory)
        \o Section("## Retrieved Documents", c.rag)
        \o Section("## Web Search Results", c.web)

(* Mutant: the messages are saved before the stream flag is looked at. *)
AfterCompletionSavesFirst(req) ==
    IF req.chat_id # None THEN "save_user"
    ELSE IF req.stream THEN "streaming"
    ELSE "respond"

(* Lines 209-213 once the adapter has returned: a streaming request returns
   the adapter's value at once; otherwise the messages are saved when the
   request carries a chat id. *)
AfterCompletion(req) ==
    IF req.stream THEN "streaming"
    ELSE IF req.chat_id # None THEN "save_user"
    ELSE "respond"

(* The synchronous sends of _gemma_completion before its awaited call
   (lines 270-276): the system prompt, then every earlier user message. *)
GemmaSends(req, arg) ==
    (IF arg # << >> THEN 1 ELSE 0)
        + Cardinality({i \in 1..(Len(req.messages) - 1) :
                          req.messages[i].role = "user"})

(* The handler ends with an exception. *)
Raise(r, e) ==
    /\ pc' = [pc EXCEPT ![r] = "failed"]
    /\ outcome' = [outcome EXCEPT ![r] = e]

(* ChatService.chat_completion lines 186-207 and the adapter up to its first
   awaited provider call.  sent.system is the system prompt that is part of
   the request to the provider, << >> when there is none. *)
Dispatch(r) ==
    LET req == request[r]
        p == BuildPrompt(req.system_prompt, ctx[r])
        arg == p     \* line 205: an empty prompt is passed as None; the
                     \* adapters test it for truth, and << >> stands for both
        adapter == AdapterOf(req.model)
    IN
    /\ pc[r] = "dispatch"
    /\ prompt' = [prompt EXCEPT ![r] = p]
    /\ calls' = [calls EXCEPT
                   ![r].dispatch = @ + 1,
                   ![r].provider = @ + (IF adapter = "gemma"
                                        THEN GemmaSends(req, arg) ELSE 0)]
    /\ CASE adapter = "unsupported" ->
              \* ai_client.py line 63
              /\ Raise(r, "ValueError")
              /\ UNCHANGED <<sent, result, stream>>
         [] adapter = "claude" /\ ~settings.ANTHROPIC_API_KEY ->
              \* lines 76-77
              /\ Raise(r, "ValueError")
              /\ UNCHANGED <<sent, result, stream>>
         [] adapter = "claude" /\ settings.ANTHROPIC_API_KEY /\ req.stream ->
              \* lines 102-113: kwargs carry the system prompt; the generator
              \* is returned unstarted
              /\ result' = [result EXCEPT ![r] = [kind |-> "claude_stream"]]
              /\ sent' = [sent EXCEPT ![r] = [adapter |-> "claude", system |-> arg]]
              /\ stream' = [stream EXCEPT ![r] = "created"]
              /\ pc' = [pc EXCEPT ![r] = AfterCompletion(req)]
              /\ outcome' = [outcome EXCEPT ![r] = "streaming"]
         [] adapter = "claude" /\ settings.ANTHROPIC_API_KEY /\ ~req.stream ->
              /\ sent' = [sent EXCEPT ![r] = [adapter |-> "claude", system |-> arg]]
              /\ pc' = [pc EXCEPT ![r] = "provider"]
              /\ UNCHANGED <<result, stream, outcome>>
         [] adapter = "gemini" /\ req.stream ->
              \* lines 173, 189-190: the model built without system_instruction
              \* is the one the stream uses
              /\ result' = [result EXCEPT ![r] = [kind |-> "gemini_stream"]]
              /\ sent' = [sent EXCEPT ![r] = [adapter |-> "gemini", system |-> << >>]]
              /\ stream' = [stream EXCEPT ![r] = "created"]
              /\ pc' = [pc EXCEPT ![r] = AfterCompletion(req)]
              /\ outcome' = [outcome EXCEPT ![r] = "streaming"]
         [] adapter = "gemini" /\ ~req.stream ->
              \* lines 193-197
              /\ sent' = [sent EXCEPT ![r] = [adapter |-> "gemini", system |-> arg]]
              /\ pc' = [pc EXCEPT ![r] = "provider"]
              /\ UNCHANGED <<result, stream, outcome>>
         [] adapter = "gemma" ->
              \* lines 264-279: the synchronous sends, which may fail, then
              \* messages[-1]
              /\ sent' = [sent EXCEPT ![r] = [adapter |-> "gemma", system |-> arg]]
              /\ \/ /\ GemmaSends(req, arg) > 0
                    /\ Raise(r, "ProviderError")
                 \/ IF req.messages = << >>
                    THEN Raise(r, "IndexError")
                    ELSE /\ pc' = [pc EXCEPT ![r] = "provider"]
                         /\ UNCHANGED outcome
              /\ UNCHANGED <<result, stream>>
    /\ UNCHANGED <<settings, chats, messages, clock, request, ctx, fetch,
                   events, saved, logAtStart, docVars, chunkVars>>

(* What the provider may answer. *)
FinishReasons == {"end_turn", "max_tokens"}
Usage == [input_tokens |-> 3, output_tokens |-> 5]

(* The unified result each adapter builds from the provider's response:
   _claude_completion lines 116-129, _gemini_completion lines 204-216,
   _gemma_completion lines 286-296. *)
UnifiedResult(adapter, model, text, stop, usage) ==
    [ kind |-> "result",
      model |-> model,
      message |-> [role |-> "assistant", content |-> text],
      tokens_used |->
          IF adapter = "claude" THEN Usage.input_tokens + Usage.output_tokens
          ELSE IF adapter = "gemini" /\ usage THEN Usage.input_tokens + Usage.output_tokens
          ELSE 0,
      finish_reason |-> IF adapter = "claude" THEN stop ELSE "stop" ]

(* The awaited provider call of a non-streaming adapter (and of gemma, which
   ignores the stream flag): messages.create line 115,
   generate_content_async line 199, send_message_async line 280. *)
ProviderCall(r) ==
    LET req == request[r]
        adapter == AdapterOf(req.model)
    IN
    /\ pc[r] = "provider"
    /\ calls' = [calls EXCEPT ![r].provider = @ + 1]
    /\ \/ /\ Raise(r, "ProviderError")
          /\ UNCHANGED <<result, stream>>
       \/ \E stop \in (IF adapter = "claude" THEN FinishReasons ELSE {"stop"}),
             usage \in (IF adapter = "gemini" THEN BOOLEAN ELSE {TRUE}) :
            /\ result' = [result EXCEPT ![r] =
                            UnifiedResult(adapter, req.model, "reply", stop, usage)]
            /\ pc' = [pc EXCEPT ![r] = AfterCompletion(req)]
            /\ IF req.stream
               THEN /\ stream' = [stream EXCEPT ![r] = "created"]
                    /\ outcome' = [outcome EXCEPT ![r] = "streaming"]
               ELSE UNCHANGED <<stream, outcome>>
    /\ UNCHANGED <<settings, chats, messages, clock, request, ctx, fetch,
                   prompt, sent, events, saved, logAtStart, docVars, chunkVars>>

----------------------------------------------------------------------------
(* ChatService.chat_completion lines 212-246: saving the exchange. *)

Last(q) == q[Len(q)]

(* Mutant: the first message of the request is saved, not the last. *)
UserMsgFirst(req) ==
    [ chat_id |-> req.chat_id,
      role |-> "user",
      content |-> req.messages[1].content,
      model |-> None,
      metadata |-> None ]

(* Lines 215-219 *)
UserMsg(req) ==
    [ chat_id |-> req.chat_id,
      role |-> "user",
      content |-> Last(req.messages).content,
      model |-> None,
      metadata |-> None ]

(* Lines 223-233 *)
AssistantMsg(req, res) ==
    [ chat_id |-> req.chat_id,
      role |-> "assistant",
      content |-> res.message.content,
      model |-> res.model,
      metadata |-> [tokens_used |-> res.tokens_used,
                    finish_reason |-> res.finish_reason] ]

(* ChatService.add_message lines 123-131: the row of a new Message. *)
NewMessage(data, t) ==
    [ id |-> t,
      chat_id |-> data.chat_id,
      role |-> data.role,
      content |-> data.content,
      model |-> data.model,
      tokens_used |-> Null,
      metadata |-> data.metadata,
      created_at |-> t ]

(* ChatService.add_message lines 133-144 when the commit succeeds: the chat is
   looked up by id alone, and messages.chat_id is a foreign key. *)
AddMessage(data) ==
    /\ data.chat_id \in DOMAIN chats
    /\ messages' = Append(messages, NewMessage(data, clock))
    /\ chats' = [chats EXCEPT ![data.chat_id].updated_at = clock]
    /\ clock' = clock + 1

(* Lines 213-220 *)
SaveUser(r) ==
    /\ pc[r] = "save_user"
    /\ IF request[r].messages = << >>
       THEN /\ Raise(r, "IndexError")
            /\ UNCHANGED <<messages, chats, clock>>
       ELSE \/ /\ AddMessage(UserMsg(request[r]))
               /\ pc' = [pc EXCEPT ![r] = "save_assistant"]
               /\ UNCHANGED outcome
            \/ /\ Raise(r, "StorageError")
               /\ UNCHANGED <<messages, chats, clock>>
    /\ UNCHANGED <<settings, request, ctx, fetch, calls, prompt, sent, result,
                   events, stream, saved, logAtStart, docVars, chunkVars>>

(* Lines 222-236 *)
SaveAssistant(r) ==
    /\ pc[r] = "save_assistant"
    /\ \/ /\ AddMessage(AssistantMsg(request[r], result[r]))
          /\ saved' = [saved EXCEPT ![r] = clock]
          /\ pc' = [pc EXCEPT ![r] = "update_tokens"]
          /\ UNCHANGED outcome
       \/ /\ Raise(r, "StorageError")
          /\ UNCHANGED <<messages, chats, clock, saved>>
    /\ UNCHANGED <<settings, request, ctx, fetch, calls, prompt, sent, result,
                   events, stream, logAtStart, docVars, chunkVars>>

(* Lines 238-244: the saved row is read back and its tokens_used column set. *)
UpdateTokens(r) ==
    /\ pc[r] = "update_tokens"
    /\ \/ /\ messages' = [i \in DOMAIN messages |->
                            IF messages[i].id = saved[r]
                            THEN [messages[i] EXCEPT
                                    !.tokens_used = Some(result[r].tokens_used)]
                            ELSE messages[i]]
          /\ pc' = [pc EXCEPT ![r] = "respond"]
          /\ UNCHANGED outcome
       \/ /\ Raise(r, "StorageError")
          /\ UNCHANGED messages
    /\ UNCHANGED <<settings, chats, clock, request, ctx, fetch, calls, prompt,
                   sent, result, events, stream, saved, logAtStart, docVars, chunkVars>>

(* Line 246 and main.py line 315: the unified result is returned. *)
Respond(r) ==
    /\ pc[r] = "respond"
    /\ pc' = [pc EXCEPT ![r] = "done"]
    /\ outcome' = [outcome EXCEPT ![r] = "ok"]
    /\ UNCHANGED <<settings, chats, messages, clock, request, ctx, fetch, calls,
                   prompt, sent, result, events, stream, saved, logAtStart,
                   docVars, chunkVars>>

----------------------------------------------------------------------------
(* main.py lines 308-313 generate() over the adapter's value, and the
   generators _claude_stream (lines 131-150), _gemini_stream (lines 218-242). *)

ContentEvent == [type |-> "content", text |-> "tok"]

(* _claude_stream lines 141-150 *)
ClaudeDone(model, stop) ==
    [ type |-> "done",
      message |-> [model |-> model,
                   tokens_used |-> Usage.input_tokens + Usage.output_tokens,
                   finish_reason |-> stop] ]

(* _gemini_stream lines 235-242 *)
GeminiDone ==
    [ type |-> "done",
      message |-> [model |-> None, tokens_used |-> 0, finish_reason |-> "stop"] ]

(* The stream ends: the handler has nothing left to do. *)
EndStream(r, how) ==
    /\ stream' = [stream EXCEPT ![r] = how]
    /\ pc' = [pc EXCEPT ![r] = "done"]

(* The consumer pulls the first item: the generator body starts with its
   provider call (line 133, lines 222-226).  The dict a gemma adapter
   returned is not an async iterator. *)
StreamOpen(r) ==
    /\ pc[r] = "streaming"
    /\ stream[r] = "created"
    /\ IF result[r].kind \in {"claude_stream", "gemini_stream"}
       THEN /\ calls' = [calls EXCEPT ![r].provider = @ + 1]
            /\ \/ /\ stream' = [stream EXCEPT ![r] = "open"]
                  /\ UNCHANGED pc
               \/ EndStream(r, "failed")
       ELSE /\ EndStream(r, "failed")
            /\ UNCHANGED calls
    /\ UNCHANGED <<settings, chats, messages, clock, request, ctx, fetch,
                   prompt, sent, result, events, outcome, saved, logAtStart,
                   docVars, chunkVars>>

(* The provider yields a text delta: lines 134-138; lines 228-233, where a
   delta with empty text yields no event. *)
StreamDelta(r) ==
    /\ pc[r] = "streaming"
    /\ stream[r] = "open"
    /\ calls[r].deltas < MaxDeltas
    /\ calls' = [calls EXCEPT ![r].deltas = @ + 1]
    /\ \/ events' = [events EXCEPT ![r] = Append(@, ContentEvent)]
       \/ /\ result[r].kind = "gemini_stream"
          /\ UNCHANGED events
    /\ UNCHANGED <<settings, chats, messages, clock, request, pc, ctx, fetch,
                   prompt, sent, result, stream, outcome, saved, logAtStart,
                   docVars, chunkVars>>

(* Mutant: the done event is yielded inside the loop over the deltas, which
   goes on. *)
StreamEndInsideLoop(r) ==
    /\ pc[r] = "streaming"
    /\ stream[r] = "open"
    /\ events' = [events EXCEPT ![r] = Append(@, GeminiDone)]
    /\ UNCHANGED <<settings, chats, messages, clock, request, pc, ctx, fetch,
                   calls, prompt, sent, result, stream, outcome, saved,
                   logAtStart, docVars, chunkVars>>

(* The provider's stream is exhausted: the generator yields its done event
   and returns. *)
StreamEnd(r) ==
    /\ pc[r] = "streaming"
    /\ stream[r] = "open"
    /\ \E stop \in (IF result[r].kind = "claude_stream" THEN FinishReasons ELSE {"stop"}) :
         events' = [events EXCEPT ![r] =
                      Append(@, IF result[r].kind = "claude_stream"
                                THEN ClaudeDone(request[r].model, stop)
                                ELSE GeminiDone)]
    /\ EndStream(r, "done")
    /\ UNCHANGED <<settings, chats, messages, clock, request, ctx, fetch, calls,
                   prompt, sent, result, outcome, saved, logAtStart, docVars, chunkVars>>

(* The provider fails while the stream is open (the text stream, or
   get_final_message line 141): the exception leaves the generator and
   generate(); nothing is yielded for it. *)
StreamFail(r) ==
    /\ pc[r] = "streaming"
    /\ stream[r] = "open"
    /\ EndStream(r, "failed")
    /\ UNCHANGED <<settings, chats, messages, clock, request, ctx, fetch, calls,
                   prompt, sent, result, events, outcome, saved, logAtStart,
                   docVars, chunkVars>>

(* The consumer disconnects: the generator is dropped where it stands. *)
Disconnect(r) ==
    /\ pc[r] = "streaming"
    /\ stream[r] \in {"created", "open"}
    /\ EndStream(r, "abandoned")
    /\ UNCHANGED <<settings, chats, messages, clock, request, ctx, fetch, calls,
                   prompt, sent, result, events, outcome, saved, logAtStart,
                   docVars, chunkVars>>

(* The handler has returned; its locals are gone and the next request may
   arrive. *)
Close(r) ==
    /\ pc[r] \in {"done", "failed"}
    /\ request' = [request EXCEPT ![r] = None]
    /\ pc' = [pc EXCEPT ![r] = "idle"]
    /\ ctx' = [ctx EXCEPT ![r] = NoCtx]
    /\ fetch' = [fetch EXCEPT ![r] = NoFetch]
    /\ calls' = [calls EXCEPT ![r] = NoCalls]
    /\ prompt' = [prompt EXCEPT ![r] = << >>]
    /\ sent' = [sent EXCEPT ![r] = None]
    /\ result' = [result EXCEPT ![r] = NoResult]
    /\ events' = [events EXCEPT ![r] = << >>]
    /\ stream' = [stream EXCEPT ![r] = "none"]
    /\ outcome' = [outcome EXCEPT ![r] = "pending"]
    /\ saved' = [saved EXCEPT ![r] = None]
    /\ logAtStart' = [logAtStart EXCEPT ![r] = << >>]
    /\ UNCHANGED <<settings, chats, messages, clock, docVars, chunkVars>>

----------------------------------------------------------------------------
(* Properties of the completion request pipeline (Spec) *)

Handling(r) == pc[r] # "idle"

Ended(r) == pc[r] \in {"done", "failed"}

NoExternalCall(r) ==
    /\ calls[r].clients = 0
    /\ calls[r].embed = 0
    /\ calls[r].search = 0
    /\ calls[r].provider = 0

(* C1: a request whose model identifier starts with none of the adapter
   prefixes fails with a configuration error, and up to that failure no
   external call (embedding, web search, provider) has been made and no
   adapter client has been constructed. *)
C1_Claim ==
    \A r \in Handlers :
        (Handling(r) /\ AdapterOf(request[r].model) = "unsupported")
            => /\ NoExternalCall(r)
               /\ Ended(r) => outcome[r] = "ValueError"

HasSection(p, label) == \E i \in 1..Len(p) : p[i] = label

SectionLabel(s) ==
    CASE s = "memory" -> "## User Memory Context"
      [] s = "rag" -> "## Retrieved Documents"
      [] s = "web" -> "## Web Search Results"

(* C2: when one context source fails with an exception, the request still
   reaches the provider dispatch, and the prompt carries the section of every
   other source that returned a non-empty context. *)
C2_Claim ==
    \A r \in Handlers : \A s \in Sources :
        (fetch[r][s] = "failed" /\ Ended(r))
            => /\ calls[r].dispatch > 0
               /\ \A t \in Sources \ {s} :
                     ctx[r][t] \notin {None, ""}
                        => HasSection(prompt[r], SectionLabel(t))

(* C3: with RAG and web grounding both enabled, the three fetches are all
   started before any one of them has completed. *)
C3_Claim ==
    \A r \in Handlers :
        (Handling(r) /\ request[r].use_rag /\ request[r].use_web_grounding)
            => ((\E s \in Sources : fetch[r][s] \in {"done", "failed"})
                   => \A s \in Sources : fetch[r][s] # "idle")

(* C4: the events of an adapter stream are content events followed, when the
   stream runs to completion, by exactly one done event; the done event is
   the last event, nothing follows it, and there is no second one. *)
C4_StreamShape ==
    \A r \in Handlers :
        LET ev == events[r] IN
        /\ \A i \in 1..Len(ev) :
              /\ ev[i].type \in {"content", "done"}
              /\ ev[i].type = "done" => (i = Len(ev) /\ stream[r] = "done")
        /\ stream[r] = "done" => (Len(ev) >= 1 /\ Last(ev).type = "done")

C4_Witness ==
    \E r \in Handlers :
        /\ stream[r] = "done"
        /\ Len(events[r]) >= 3

(* C5: when the provider fails after the stream has started, the event
   sequence delivered to the consumer ends with an explicit error event. *)
C5_Claim ==
    \A r \in Handlers :
        (stream[r] = "failed"
            /\ result[r].kind \in {"claude_stream", "gemini_stream"})
            => (Len(events[r]) >= 1 /\ Last(events[r]).type = "error")

(* C6: after a successful non-streaming completion with a chat id the log
   has gained exactly two messages, the user message (the content of the
   request's last message) and then the assistant message (the provider's
   reply, with token usage and finish reason); without a chat id the log is
   unchanged. *)
C6_Persisted ==
    \A r \in Handlers :
        outcome[r] = "ok" =>
            LET req == request[r]
                res == result[r]
                old == logAtStart[r]
                n == Len(old)
            IN
            IF req.chat_id = None
            THEN messages = old
            ELSE /\ Len(messages) = n + 2
                 /\ SubSeq(messages, 1, n) = old
                 /\ LET u == messages[n + 1]
                        a == messages[n + 2]
                    IN
                    /\ u.chat_id = req.chat_id
                    /\ u.role = "user"
                    /\ u.content = Last(req.messages).content
                    /\ a.chat_id = req.chat_id
                    /\ a.role = "assistant"
                    /\ a.content = res.message.content
                    /\ a.tokens_used = Some(res.tokens_used)
                    /\ a.metadata.tokens_used = res.tokens_used
                    /\ a.metadata.finish_reason = res.finish_reason
                    /\ u.created_at < a.created_at

C6_Witness ==
    \E r \in Handlers :
        /\ outcome[r] = "ok"
        /\ request[r].chat_id = "c1"
        /\ Len(logAtStart[r]) > 0
        /\ Len(messages) = Len(logAtStart[r]) + 2

(* C7: a streaming request creates no Message, with or without a chat id and
   however many events the consumer reads. *)
C7_StreamingKeepsLog ==
    \A r \in Handlers :
        (Handling(r) /\ request[r].stream) => messages = logAtStart[r]

C7_Witness ==
    \E r \in Handlers :
        /\ Handling(r)
        /\ request[r].stream
        /\ request[r].chat_id = "c1"
        /\ stream[r] = "done"
        /\ Len(events[r]) >= 2

----------------------------------------------------------------------------
(* shared/utils.py chunk_text *)

(* A text is known by its name and its length; its characters are known by
   their positions 0..len-1.  text[a:b] is the part of it between the two
   positions: Python counts a negative position from the end and clamps
   both to 0..len, and the part is empty when b is not after a. *)
Min(a, b) == IF a < b THEN a ELSE b

Max(a, b) == IF a > b THEN a ELSE b

Position(i, len) == IF i < 0 THEN Max(i + len, 0) ELSE Min(i, len)

(* Mutant: the end of a window is not clamped to the end of the text. *)
SliceUnclamped(text, a, b) ==
    [of |-> text.name, from |-> Position(a, text.len), to |-> b]

Slice(text, a, b) ==
    [of |-> text.name,
     from |-> Position(a, text.len),
     to |-> Max(Position(a, text.len), Position(b, text.len))]

DefaultChunkSize == 1000
DefaultOverlap == 200

(* Mutant: the next window starts where this one ended. *)
NextStartAtEnd(end, overlap) == end

(* Line 115: start = end - overlap *)
NextStart(end, overlap) == end - overlap

RECURSIVE ChunkLoop(_, _, _, _, _)
(* Lines 111-115: the while loop, from position start with acc collected. *)
ChunkLoop(text, chunk_size, overlap, start, acc) ==
    IF start < text.len
    THEN ChunkLoop(text, chunk_size, overlap,
                   NextStart(start + chunk_size, overlap),
                   Append(acc, Slice(text, start, start + chunk_size)))
    ELSE acc

ChunkText(text, chunk_size, overlap) ==
    ChunkLoop(text, chunk_size, overlap, 0, << >>)

(* chunk_text one iteration at a time, for the arguments that the loop may
   never leave. *)

MaxTextLen == 6         \* characters of a short text
MaxSize == 3            \* chunk_size and overlap of a short text
MaxSteps == 8           \* iterations of the while loop that are followed

(* The calls: every short text with every small size and overlap (overlap
   below size or not), and texts of the sizes of real documents with the
   default size and overlap. *)
ChunkCalls ==
    [ text : {[name |-> "short", len |-> n] : n \in 0..MaxTextLen},
      chunk_size : 1..MaxSize,
      overlap : 0..MaxSize ]
    \cup
    [ text : {[name |-> "doc", len |-> n] : n \in {900, 1800, 2500}},
      chunk_size : {DefaultChunkSize},
      overlap : {DefaultOverlap} ]

(* Lines 107-109: chunks = [], start = 0, text_length = len(text) *)
ChunkEntry(call) ==
    [pc |-> "loop", text |-> call.text, chunk_size |-> call.chunk_size,
     overlap |-> call.overlap, start |-> 0, chunks |-> << >>]

(* Lines 111-115: one iteration of the while loop. *)
ChunkStep ==
    /\ chunker.pc = "loop"
    /\ chunker.start < chunker.text.len
    /\ Len(chunker.chunks) < MaxSteps
    /\ LET end == chunker.start + chunker.chunk_size IN
       chunker' = [chunker EXCEPT
                     !.chunks = Append(@, Slice(chunker.text, chunker.start, end)),
                     !.start = NextStart(end, chunker.overlap)]
    /\ UNCHANGED <<reqVars, docVars>>

(* Lines 111 and 117: the loop condition is false, return chunks. *)
ChunkReturn ==
    /\ chunker.pc = "loop"
    /\ ~(chunker.start < chunker.text.len)
    /\ chunker' = [chunker EXCEPT !.pc = "returned"]
    /\ UNCHANGED <<reqVars, docVars>>

NextChunk == ChunkStep \/ ChunkReturn

InitChunk ==
    /\ InitStores /\ InitHandlers /\ InitDocs
    /\ settings = [ANTHROPIC_API_KEY |-> TRUE, VERTEX_AI_PROJECT |-> TRUE,
                   GOOGLE_SEARCH |-> TRUE]
    /\ chunker \in {ChunkEntry(call) : call \in ChunkCalls}

SpecChunk == InitChunk /\ [][NextChunk]_vars

----------------------------------------------------------------------------
(* Properties of chunk_text (SpecChunk) *)

Returned == chunker.pc = "returned"

ValidOverlap == chunker.overlap < chunker.chunk_size

WindowLen(w) == w.to - w.from

(* The characters a window holds, each known by its position in the text. *)
Chars(w) == [i \in 1..WindowLen(w) |-> (w.from + i) - 1]

DropFirst(s, k) == SubSeq(s, k + 1, Len(s))

RECURSIVE Rebuild(_, _, _)
(* The first window whole, then every later window without its first
   overlap characters, concatenated in order. *)
Rebuild(windows, overlap, i) ==
    IF i > Len(windows) THEN << >>
    ELSE (IF i = 1 THEN Chars(windows[i]) ELSE DropFirst(Chars(windows[i]), overlap))
         \o Rebuild(windows, overlap, i + 1)

(* C13: with 0 <= overlap < size the windows start at 0, size-overlap,
   2*(size-overlap), ... and every window except the final one has exactly
   size characters. *)
C13_Claim ==
    (Returned /\ ValidOverlap) =>
        \A i \in 1..Len(chunker.chunks) :
            /\ chunker.chunks[i].from
                  = (i - 1) * (chunker.chunk_size - chunker.overlap)
            /\ i < Len(chunker.chunks)
                  => WindowLen(chunker.chunks[i]) = chunker.chunk_size

(* C14: with overlap >= size the call fails with InvalidConfiguration: it
   collects no window and does not return a list. *)
C14_Claim ==
    (chunker.pc # "idle" /\ ~ValidOverlap) =>
        /\ chunker.chunks = << >>
        /\ ~Returned

(* C15: with 0 <= overlap < size, the first window whole followed by every
   later window without its first overlap characters is exactly the text. *)
C15_Lossless ==
    (Returned /\ ValidOverlap) =>
        Rebuild(chunker.chunks, chunker.overlap, 1)
            = [i \in 1..chunker.text.len |-> i - 1]

C15_Witness ==
    /\ Returned
    /\ ValidOverlap
    /\ chunker.overlap > 0
    /\ Len(chunker.chunks) >= 3
    /\ WindowLen(chunker.chunks[Len(chunker.chunks)]) < chunker.overlap

IsIngest2500 ==
    /\ Returned
    /\ chunker.text.len = 2500
    /\ chunker.chunk_size = 1000
    /\ chunker.overlap = 200

----------------------------------------------------------------------------
(* rag/service.py RAGService and memory/service.py MemoryService.create_memory *)

Texts ==
    { [name |-> "empty", len |-> 0],
      [name |-> "note", len |-> 500],
      [name |-> "paper", len |-> 1800] }

(* AIClient.generate_embedding: the vector of a content. *)
Emb(content) == [of |-> content]

(* Mutant: a chunk whose embedding call failed is not stored. *)
ChunkRowsSkipFailed(d, windows, failed, first) ==
    { [ id |-> first + i,
        document_id |-> d,
        chunk_index |-> i - 1,
        content |-> windows[i],
        embedding |-> Some(Emb(windows[i])) ]
      : i \in {j \in 1..Len(windows) : (j - 1) \notin failed} }

(* Lines 56-72 and 167-183: one DocumentChunk row per window, numbered by
   enumerate; the embedding is NULL where the embedding call failed.  The
   rows take the uuid4 values after first. *)
ChunkRows(d, windows, failed, first) ==
    { [ id |-> first + i,
        document_id |-> d,
        chunk_index |-> i - 1,
        content |-> windows[i],
        embedding |-> IF (i - 1) \in failed THEN Null ELSE Some(Emb(windows[i])) ]
      : i \in 1..Len(windows) }

ChunksOf(d) == {c \in chunks : c.document_id = d}

Indices(windows) == 0..(Len(windows) - 1)

(* RAGService.create_document as the route calls it (default chunk size and
   overlap), in one transaction.  failed is the set of chunk indices whose
   embedding call raises. *)
CreateDocument ==
    \E user \in Users, content \in Texts :
      LET windows == ChunkText(content, DefaultChunkSize, DefaultOverlap)
          d == uuid + 1
      IN
      \E failed \in SUBSET Indices(windows) :
        /\ uuid + 1 + Len(windows) <= MaxIds
        /\ Cardinality(DOMAIN documents) < MaxDocs
        /\ documents' = (d :> [user_id |-> user, title |-> "t1",
                               content |-> content, size_bytes |-> content.len])
                          @@ documents
        /\ chunks' = chunks \cup ChunkRows(d, windows, failed, d)
        /\ uuid' = uuid + 1 + Len(windows)
        /\ lastOp' = [op |-> "create_document", ok |-> TRUE, doc |-> d,
                      content |-> content, failed |-> failed, before |-> {}]
        /\ UNCHANGED <<memories, reqVars, chunkVars>>

(* No content given (None) *)
NoText == [name |-> None, len |-> 0]

(* The operation raised ValueError("... not found") and changed nothing. *)
NotFound(op) ==
    [op |-> op, ok |-> FALSE, doc |-> 0, content |-> NoText, failed |-> {},
     before |-> {}]

(* RAGService._rechunk_document: the statement under "Delete existing
   chunks" is a select, which removes nothing; the new rows are added. *)
Rechunk(d, content, failed, first) ==
    chunks \cup ChunkRows(d, ChunkText(content, DefaultChunkSize, DefaultOverlap),
                          failed, first)

(* The ids a caller may name: those of the stored documents, and one that no
   document has. *)
DocIds == DOMAIN documents \cup {0}

(* The row document_id of user, as the select of lines 116-119 and 146-149
   finds it. *)
Found(d, user) == d \in DOMAIN documents /\ documents[d].user_id = user

(* RAGService.update_document, in one transaction.  title and content are
   None when the update leaves them alone. *)
UpdateDocument ==
    \E d \in DocIds, user \in Users :
      IF Found(d, user)
      THEN \E title \in {None, "t1"}, content \in Texts \cup {NoText} :
             LET changes == content.name # None
                 windows == IF changes
                            THEN ChunkText(content, DefaultChunkSize, DefaultOverlap)
                            ELSE << >>
             IN
             /\ uuid + Len(windows) <= MaxIds
             /\ \E failed \in SUBSET Indices(windows) :
                  /\ documents' =
                       [documents EXCEPT
                          ![d].title = IF title # None THEN title ELSE @,
                          ![d].content = IF changes THEN content ELSE @,
                          ![d].size_bytes = IF changes THEN content.len ELSE @]
                  /\ chunks' = IF changes THEN Rechunk(d, content, failed, uuid)
                               ELSE chunks
                  /\ uuid' = uuid + Len(windows)
                  /\ lastOp' = [op |-> "update_document", ok |-> TRUE, doc |-> d,
                                content |-> content, failed |-> failed,
                                before |-> ChunksOf(d)]
                  /\ UNCHANGED <<memories, reqVars, chunkVars>>
      ELSE \* lines 121-122: ValueError("Document not found")
           /\ lastOp' = NotFound("update_document")
           /\ UNCHANGED <<documents, chunks, memories, uuid, reqVars, chunkVars>>

(* Mutant: deleting a Document leaves its chunks in the table. *)
CascadeKeepsChunks(d) == chunks

(* The document_chunks table once Document d is deleted: relationship
   cascade "all, delete-orphan" and foreign key ON DELETE CASCADE. *)
CascadeDelete(d) == chunks \ ChunksOf(d)

(* RAGService.delete_document: the Document goes with its chunks. *)
DeleteDocument ==
    \E d \in DocIds, user \in Users :
      IF Found(d, user)
      THEN /\ documents' = [e \in DOMAIN documents \ {d} |-> documents[e]]
           /\ chunks' = CascadeDelete(d)
           /\ lastOp' = [op |-> "delete_document", ok |-> TRUE, doc |-> d,
                         content |-> NoText, failed |-> {},
                         before |-> ChunksOf(d)]
           /\ UNCHANGED <<memories, uuid, reqVars, chunkVars>>
      ELSE \* lines 151-152
           /\ lastOp' = NotFound("delete_document")
           /\ UNCHANGED <<documents, chunks, memories, uuid, reqVars, chunkVars>>

(* The embedding model places a content on a direction; the cosine
   distance of two embeddings (pgvector <=>) is how far their directions
   are apart.  Contents differ in direction and some coincide. *)
Direction(content) ==
    IF "from" \in DOMAIN content
    THEN ((content.from \div 100) + (content.to \div 100)) % 3
    ELSE content.len % 3

Distance(u, v) ==
    IF Direction(u.of) < Direction(v.of)
    THEN Direction(v.of) - Direction(u.of)
    ELSE Direction(u.of) - Direction(v.of)

(* The vector a non-NULL embedding column holds. *)
Vector(column) == CHOOSE v \in column : TRUE

(* ORDER BY embedding <=> q, ascending: row a may come before row b.  A NULL
   distance sorts last. *)
MayPrecede(q, a, b) ==
    \/ b.embedding = Null
    \/ /\ a.embedding # Null
       /\ Distance(q, Vector(a.embedding)) <= Distance(q, Vector(b.embedding))

RECURSIVE Nearest(_, _, _)
(* ORDER BY embedding <=> q LIMIT k over the rows: every sequence the
   database may return (rows at equal distance come in any order). *)
Nearest(rows, q, k) ==
    IF k <= 0 \/ rows = {} THEN {<< >>}
    ELSE UNION { { <<x>> \o t : t \in Nearest(rows \ {x}, q, k - 1) }
                 : x \in {y \in rows : \A z \in rows : MayPrecede(q, y, z)} }

Queries == {[name |-> "q1", len |-> 1], [name |-> "q2", len |-> 2]}

Limits == {1, 2}

(* Mutant: the chunks of every user's documents are candidates. *)
CandidatesOfAnyOwner(user) ==
    {c \in chunks : c.document_id \in DOMAIN documents /\ c.embedding # Null}

(* Lines 215-218: FROM document_chunks JOIN documents WHERE d.user_id =
   :user_id AND dc.embedding IS NOT NULL *)
Candidates(user) ==
    {c \in chunks : /\ c.document_id \in DOMAIN documents
                    /\ documents[c.document_id].user_id = user
                    /\ c.embedding # Null}

(* Lines 207-214 and 232-242: the dict built from a row. *)
SearchRow(c, q) ==
    [chunk_id |-> c.id,
     chunk_content |-> c.content,
     chunk_index |-> c.chunk_index,
     document_id |-> c.document_id,
     document_title |-> documents[c.document_id].title,
     similarity |-> 1 - Distance(q, Vector(c.embedding))]

(* RAGService.search_documents.  answer is what the collaborators do: the
   embedding call raises (caught, lines 198-200), the query raises (not
   caught), or both succeed. *)
SearchDocuments ==
    \E user \in Users, query \in Queries, limit \in Limits,
       answer \in {"ok", "embedding_failed", "query_failed"} :
        /\ \E found \in IF answer = "ok"
                        THEN Nearest(Candidates(user), Emb(query), limit)
                        ELSE {<< >>} :
             lastOp' = [op |-> "search_documents",
                        ok |-> answer # "query_failed",
                        user |-> user, query |-> query, limit |-> limit,
                        rows |-> [i \in 1..Len(found) |->
                                     SearchRow(found[i], Emb(query))]]
        /\ UNCHANGED <<documents, chunks, memories, uuid, reqVars, chunkVars>>

MemoryTexts == {[name |-> "likes tea", len |-> 9]}

(* Importance scores are DECIMAL(3,2) in [0,1], counted here in tenths. *)
DefaultImportance == 5

(* Lines 35-46: the Memory row built from a MemoryCreate; failed tells
   whether the embedding call raised (lines 29-33). *)
MemoryRow(id, data, failed) ==
    [ id |-> id,
      user_id |-> data.user_id,
      chat_id |-> data.chat_id,
      memory_type |-> data.memory_type,
      content |-> data.content,
      embedding |-> IF failed THEN Null ELSE Some(Emb(data.content)),
      importance_score |-> data.importance_score,
      created_at |-> id ]

(* MemoryService.create_memory lines 26-52, as the document store's
   specification uses it; failed tells whether the embedding call raises. *)
CreateMemory ==
    \E user \in {Caller}, chat \in {None, "c1"}, content \in MemoryTexts,
       failed \in BOOLEAN :
        /\ uuid + 1 <= MaxIds
        /\ Cardinality(memories) < MaxMemories
        /\ memories' = memories \cup
              { MemoryRow(uuid + 1,
                          [user_id |-> user, chat_id |-> chat,
                           memory_type |-> "user_fact", content |-> content,
                           importance_score |-> DefaultImportance],
                          failed) }
        /\ uuid' = uuid + 1
        /\ lastOp' = [op |-> "create_memory", ok |-> TRUE, doc |-> uuid + 1,
                      content |-> content,
                      failed |-> IF failed THEN {0} ELSE {}, before |-> {}]
        /\ UNCHANGED <<documents, chunks, reqVars, chunkVars>>

NextDoc ==
    \/ CreateDocument
    \/ UpdateDocument
    \/ DeleteDocument
    \/ CreateMemory

(* The stores alone: no request is in flight and the configuration, which
   these operations do not read, is the fully configured one. *)
InitDoc ==
    /\ Init
    /\ settings = [ANTHROPIC_API_KEY |-> TRUE, VERTEX_AI_PROJECT |-> TRUE,
                   GOOGLE_SEARCH |-> TRUE]

SpecDoc == InitDoc /\ [][NextDoc]_vars

(* The document store with its search. *)
NextRag ==
    \/ CreateDocument
    \/ UpdateDocument
    \/ DeleteDocument
    \/ SearchDocuments

SpecRag == InitDoc /\ [][NextRag]_vars

----------------------------------------------------------------------------
(* memory/service.py MemoryService and chat/service.py delete_chat *)

MaxFacts == 2           \* rows of the memories table of the memory store

handlerVars == <<request, pc, ctx, fetch, calls, prompt, sent, result, events,
                 stream, outcome, saved, logAtStart>>

Tea == [name |-> "likes tea", len |-> 9]
Night == [name |-> "works at night", len |-> 14]

(* MemoryCreate payloads of the route: a memory of a chat and a global one of
   the same user, with the same content and different kinds and
   importances, and a memory of another user. *)
MemoryData ==
    { [user_id |-> "u1", chat_id |-> "c1", memory_type |-> "user_fact",
       content |-> Tea, importance_score |-> 3],
      [user_id |-> "u1", chat_id |-> None, memory_type |-> "preference",
       content |-> Tea, importance_score |-> 7],
      [user_id |-> "u2", chat_id |-> "c2", memory_type |-> "user_fact",
       content |-> Tea, importance_score |-> DefaultImportance] }

(* memories.chat_id is a foreign key to chats.id. *)
ChatExists(chat) == chat = None \/ chat \in DOMAIN chats

(* The route create_memory (api/main.py lines 322-331) and
   MemoryService.create_memory.  A chat_id that names no chat fails the
   commit. *)
CreateMemoryRoute ==
    \E data \in MemoryData, failed \in BOOLEAN :
        /\ uuid + 1 <= MaxIds
        /\ Cardinality(memories) < MaxFacts
        /\ IF ChatExists(data.chat_id)
           THEN /\ memories' = memories \cup {MemoryRow(uuid + 1, data, failed)}
                /\ uuid' = uuid + 1
                /\ lastOp' = [op |-> "create_memory", ok |-> TRUE,
                              doc |-> uuid + 1, content |-> data.content,
                              failed |-> IF failed THEN {0} ELSE {},
                              before |-> {}]
           ELSE /\ lastOp' = NotFound("create_memory")
                /\ UNCHANGED <<memories, uuid>>
        /\ UNCHANGED <<documents, chunks, reqVars, chunkVars>>

MemoryIds == {m.id : m \in memories} \cup {0}

(* MemoryUpdate payloads: a new content, or a new importance. *)
MemoryUpdates ==
    { [content |-> Night, importance_score |-> Null],
      [content |-> NoText, importance_score |-> Some(9)] }

(* MemoryService.update_memory lines 93-128.  content is NoText and
   importance is Null when the MemoryUpdate leaves them alone; failed tells
   whether the embedding call raises (lines 114-115: logged, nothing else). *)
UpdateMemory ==
    \E id \in MemoryIds, user \in Users :
      IF \E m \in memories : m.id = id /\ m.user_id = user
      THEN LET m == CHOOSE x \in memories : x.id = id IN
           \E update \in MemoryUpdates :
             LET content == update.content
                 importance == update.importance_score
                 changes == content.name # None
             IN
             \E failed \in IF changes THEN BOOLEAN ELSE {FALSE} :
               /\ memories' = (memories \ {m}) \cup
                    { [m EXCEPT
                         !.content = IF changes THEN content ELSE @,
                         !.embedding = IF changes /\ ~failed
                                       THEN Some(Emb(content)) ELSE @,
                         !.importance_score =
                            IF importance # Null
                            THEN CHOOSE v \in importance : TRUE ELSE @] }
               /\ lastOp' = [op |-> "update_memory", ok |-> TRUE, doc |-> id,
                             content |-> content,
                             failed |-> IF failed THEN {0} ELSE {},
                             before |-> {}]
               /\ UNCHANGED <<documents, chunks, uuid, reqVars, chunkVars>>
      ELSE \* lines 105-106: ValueError("Memory not found")
           /\ lastOp' = NotFound("update_memory")
           /\ UNCHANGED <<documents, chunks, memories, uuid, reqVars, chunkVars>>

(* Mutant: the memories of a deleted chat are deleted with it. *)
DeleteWithChat(chat) == {m \in memories : m.chat_id # chat}

(* The memories table once the chat is deleted: memories.chat_id is
   ON DELETE SET NULL (database/models.py line 181). *)
SetNull(chat) ==
    { IF m.chat_id = chat THEN [m EXCEPT !.chat_id = None] ELSE m
      : m \in memories }

(* The messages table once the chat is deleted: relationship cascade and
   ON DELETE CASCADE (database/models.py lines 157 and 164). *)
CascadeMessages(chat) == SelectSeq(messages, LAMBDA m : m.chat_id # chat)

(* ChatService.delete_chat lines 108-119. *)
DeleteChat ==
    \E chat \in ChatIds, user \in Users :
        /\ IF chat \in DOMAIN chats /\ chats[chat].user_id = user
           THEN /\ chats' = [c \in DOMAIN chats \ {chat} |-> chats[c]]
                /\ messages' = CascadeMessages(chat)
                /\ memories' = SetNull(chat)
                /\ lastOp' = [op |-> "delete_chat", ok |-> TRUE, chat |-> chat,
                              before |-> memories]
           ELSE \* lines 115-116: ValueError("Chat not found")
                /\ lastOp' = [op |-> "delete_chat", ok |-> FALSE,
                              chat |-> chat, before |-> {}]
                /\ UNCHANGED <<chats, messages, memories>>
        /\ UNCHANGED <<settings, clock, handlerVars, documents, chunks, uuid,
                       chunkVars>>

(* Lines 157-163: WHERE user_id = :user_id, and memory_type and chat_id
   when the request gives them. *)
Matching(user, memory_type, chat_id) ==
    {m \in memories : /\ m.user_id = user
                      /\ memory_type # None => m.memory_type = memory_type
                      /\ chat_id # None => m.chat_id = chat_id}

(* MemorySearchRequest payloads: with no filter, with each and with both. *)
SearchRequests ==
    { [query |-> q, memory_type |-> f.memory_type, chat_id |-> f.chat_id,
       limit |-> f.limit]
      : q \in Queries,
        f \in { [memory_type |-> None, chat_id |-> None, limit |-> 2],
                [memory_type |-> "preference", chat_id |-> None, limit |-> 1],
                [memory_type |-> None, chat_id |-> "c1", limit |-> 2] } }

(* MemoryService.search_memories lines 143-178.  answer is what the
   collaborators do: the embedding call raises (caught, lines 152-154), the
   query raises (not caught), or both succeed. *)
SearchMemories ==
    \E user \in Users, req \in SearchRequests,
       answer \in {"ok", "embedding_failed", "query_failed"} :
        /\ \E found \in IF answer = "ok"
                        THEN Nearest(Matching(user, req.memory_type, req.chat_id),
                                     Emb(req.query), req.limit)
                        ELSE {<< >>} :
             lastOp' = [op |-> "search_memories",
                        ok |-> answer # "query_failed",
                        user |-> user, request |-> req, rows |-> found]
        /\ UNCHANGED <<documents, chunks, memories, uuid, reqVars, chunkVars>>

(* MemoryService.extract_memories_from_conversation *)

MinMemoryLen == 10
ExtractedImportance == 7

(* A line of the extraction model's answer, after strip(): its label, if it
   starts with one, and the stripped text that follows the label (the whole
   line when there is no label). *)
Line(label, body) == [label |-> label, body |-> body]

Blank == Line(None, [name |-> "", len |-> 0])

(* Answers of the extraction model, split at newlines. *)
Answers ==
    { <<Blank>>,
      <<Line("[FACT]", [name |-> "lives in Lyon", len |-> 13]),
        Blank,
        Line("[PREFERENCE]", [name |-> "tea", len |-> 3])>>,
      <<Line("[CONTEXT]", [name |-> "writes a thesis", len |-> 15]),
        Line(None, [name |-> "Here are the memories:", len |-> 22])>> }

(* Lines 227-238: the kind a line's label stands for; user_fact without one. *)
KindOf(label) ==
    IF label = "[PREFERENCE]" THEN "preference"
    ELSE IF label = "[CONTEXT]" THEN "chat"
    ELSE "user_fact"

(* Lines 224-225 and 240: a blank line is skipped, and so is a content of at
   most 10 characters. *)
Kept(line) == line.body.len > 0 /\ line.body.len > MinMemoryLen

(* Lines 222-248: the MemoryCreate payloads of the lines, in order. *)
Extracted(user, chat, lines) ==
    LET kept == SelectSeq(lines, Kept) IN
    [i \in 1..Len(kept) |->
        [user_id |-> user, chat_id |-> chat,
         memory_type |-> KindOf(kept[i].label),
         content |-> kept[i].body,
         importance_score |-> ExtractedImportance]]

(* Line 191: the transcript is built from messages[-10:]. *)
TranscriptWindow == 10
ConversationLengths == {0, 3, 12}

(* How many of n messages the slice messages[-10:] holds. *)
Transcript(n) == n - Position(-TranscriptWindow, n)

(* Mutant: after a failure the memories created so far are returned. *)
ExtractReturnsPartial(failure, created) == [ok |-> TRUE, rows |-> created]

(* Lines 252 and 254-256: the list of the created memories, or [] when
   anything inside the try raised. *)
ExtractReturn(failure, created) ==
    [ok |-> TRUE, rows |-> IF failure # "none" THEN << >> ELSE created]

(* The whole call on a conversation of count messages.  The model call
   raises, or answers with lines; the
   create_memory of line number stop raises at its commit (0: none does; the
   first one does when the chat does not exist); the embedding calls of the
   lines in failed raise and are swallowed by create_memory. *)
ExtractMemories ==
    \E user \in {Caller}, chat \in {"c1"}, raised \in BOOLEAN,
       count \in ConversationLengths :
      \E lines \in IF raised THEN {<< >>} ELSE Answers :
        LET data == Extracted(user, chat, lines) IN
        \E stop \in IF data # << >> /\ ~ChatExists(chat)
                    THEN {1} ELSE 0..Len(data) :
          LET n == IF stop > 0 THEN stop - 1 ELSE Len(data)
              failure == IF raised THEN "model"
                         ELSE IF stop > 0 THEN "store" ELSE "none"
          IN
          \E failed \in SUBSET (1..n) :
            LET created == [i \in 1..n |->
                              MemoryRow(uuid + i, data[i], i \in failed)]
                return == ExtractReturn(failure, created)
            IN
            /\ uuid + n <= MaxIds
            /\ Cardinality(memories) + n <= MaxFacts
            /\ memories' = memories \cup {created[i] : i \in 1..n}
            /\ uuid' = uuid + n
            /\ lastOp' = [op |-> "extract_memories", ok |-> return.ok,
                          user |-> user, chat |-> chat, failure |-> failure,
                          read |-> Transcript(count), lines |-> lines,
                          rows |-> return.rows, before |-> memories]
            /\ UNCHANGED <<documents, chunks, reqVars, chunkVars>>

(* The memory store: its writes and the deletion of chats. *)
NextMem ==
    \/ CreateMemoryRoute
    \/ UpdateMemory
    \/ DeleteChat

SpecMem == InitDoc /\ [][NextMem]_vars

(* The memory store: its search over what the routes stored. *)
NextRecall ==
    \/ CreateMemoryRoute
    \/ UpdateMemory
    \/ DeleteChat
    \/ SearchMemories

SpecRecall == InitDoc /\ [][NextRecall]_vars

(* The extraction of memories, with the deletion of chats. *)
NextExtract ==
    \/ ExtractMemories
    \/ DeleteChat

SpecExtract == InitDoc /\ [][NextExtract]_vars

----------------------------------------------------------------------------
(* chat/service.py ChatService.generate_chat_title, over the chat and message
   tables that non-streaming completion requests fill. *)

(* The completion requests of the chat specifications: non-streaming, for
   claude, with a chat id and no optional context source. *)
ChatRequests ==
    { req \in Requests :
        /\ AdapterOf(req.model) = "claude"
        /\ req.chat_id \in {"c1", "c2"}
        /\ req.messages # << >>
        /\ ~req.stream /\ ~req.use_rag /\ ~req.use_web_grounding
        /\ req.system_prompt = None }

ReceiveChat(r) == Accept(r, ChatRequests)

TitleLimit == 3
DefaultTitle == "New Chat"
Titles == {"Trip plans"}        \* what the title model may answer

(* ChatService.get_chat_messages lines 163-173: the first rows of the chat in
   creation order, which is the insertion order of the table. *)
GetChatMessages(chat, limit) ==
    LET rows == SelectSeq(messages, LAMBDA m : m.chat_id = chat) IN
    SubSeq(rows, 1, Min(limit, Len(rows)))

(* What a call of generate_chat_title did: failure is what went wrong inside
   it, raised the exception that left it, title the value it returned. *)
TitleOp(chat, user, failure, raised, title) ==
    [op |-> "generate_chat_title", chat |-> chat, user |-> user,
     failure |-> failure, raised |-> raised, title |-> title]

(* Line 250, outside the try block: an exception of get_chat_messages leaves
   generate_chat_title. *)
TitleReadRaises(chat, user, failure, e) ==
    TitleOp(chat, user, failure, e, None)

(* ChatService.generate_chat_title lines 248-278. *)
GenerateChatTitle ==
    \E chat \in ChatIds, user \in Users :
        LET rows == GetChatMessages(chat, TitleLimit)
            asked == SelectSeq(rows, LAMBDA m : m.role = "user")
        IN
        /\ IF ~(chat \in DOMAIN chats /\ chats[chat].user_id = user)
           THEN \* get_chat_messages lines 157-161
                lastOp' = TitleReadRaises(chat, user, "chat", "ValueError")
           ELSE \/ \* the message query fails
                   lastOp' = TitleReadRaises(chat, user, "read", "StorageError")
                \/ IF asked = << >>
                   THEN \* lines 252-258
                        lastOp' = TitleOp(chat, user, "none", "none", DefaultTitle)
                   ELSE \/ \* lines 276-278: the title model call fails
                           lastOp' = TitleOp(chat, user, "model", "none", DefaultTitle)
                        \/ \* lines 261-275
                           \E t \in Titles :
                               lastOp' = TitleOp(chat, user, "none", "none", t)
        /\ UNCHANGED <<settings, chats, messages, clock, handlerVars, documents,
                       chunks, memories, uuid, chunkVars>>

NextTitle ==
    \/ \E r \in Single :
          \/ ReceiveChat(r)
          \/ MemEmbed(r)
          \/ MemQuery(r)
          \/ Dispatch(r)
          \/ ProviderCall(r)
          \/ SaveUser(r)
          \/ SaveAssistant(r)
          \/ UpdateTokens(r)
          \/ Respond(r)
          \/ Close(r)
    \/ GenerateChatTitle
    \/ DeleteChat

SpecTitle == InitDoc /\ [][NextTitle]_vars

----------------------------------------------------------------------------
(* Two completion requests in flight at once: each request is a coroutine
   with a database session of its own, and the event loop may switch from
   one to the other at every await. *)

NextPair ==
    \E r \in Handlers :
        \/ ReceiveChat(r)
        \/ MemEmbed(r)
        \/ MemQuery(r)
        \/ Dispatch(r)
        \/ ProviderCall(r)
        \/ SaveUser(r)
        \/ SaveAssistant(r)
        \/ UpdateTokens(r)
        \/ Respond(r)
        \/ Close(r)

SpecPair == InitDoc /\ [][NextPair]_vars

----------------------------------------------------------------------------
(* Properties of the document and memory stores (SpecDoc) *)

DefaultWindows(content) == ChunkText(content, DefaultChunkSize, DefaultOverlap)

(* The chunks rows hold exactly the windows, numbered in order. *)
HoldsWindows(rows, windows) ==
    /\ Cardinality(rows) = Len(windows)
    /\ \A i \in Indices(windows) :
          \E c \in rows : c.chunk_index = i /\ c.content = windows[i + 1]

(* C8: an embedding failure never aborts create_document or create_memory:
   the Document is committed with one chunk per window of the chunker, a
   NULL embedding on exactly the chunks whose embedding call failed and the
   generated embedding on the others; the Memory is committed with a NULL
   embedding when its embedding call failed. *)
C8_EmbeddingFailureKept ==
    /\ lastOp.op = "create_document" =>
          LET d == lastOp.doc
              windows == DefaultWindows(lastOp.content)
          IN
          /\ lastOp.ok
          /\ d \in DOMAIN documents
          /\ documents[d].content = lastOp.content
          /\ HoldsWindows(ChunksOf(d), windows)
          /\ \A c \in ChunksOf(d) :
                c.embedding = IF c.chunk_index \in lastOp.failed
                              THEN Null ELSE Some(Emb(c.content))
    /\ lastOp.op = "create_memory" =>
          /\ lastOp.ok
          /\ \E m \in memories :
                /\ m.id = lastOp.doc
                /\ m.content = lastOp.content
                /\ m.embedding = IF lastOp.failed # {}
                                 THEN Null ELSE Some(Emb(m.content))

C8_Witness ==
    /\ lastOp.op = "create_document"
    /\ Len(DefaultWindows(lastOp.content)) = 3
    /\ Cardinality(lastOp.failed) = 1

(* C9: in every committed state the chunk indices of each Document are
   pairwise distinct and are exactly 0..n-1, n the number of its chunks. *)
C9_Claim ==
    \A d \in DOMAIN documents :
        LET rows == ChunksOf(d) IN
        /\ \A c1, c2 \in rows : c1.chunk_index = c2.chunk_index => c1 = c2
        /\ {c.chunk_index : c \in rows} = 0..(Cardinality(rows) - 1)

(* C10: after update_document with new content the Document's chunks are
   exactly the windows of the new content, in order, and none of the chunks
   it had before is still stored. *)
C10_Claim ==
    (lastOp.op = "update_document" /\ lastOp.ok /\ lastOp.content.name # None)
        => LET d == lastOp.doc IN
           /\ ChunksOf(d) \cap lastOp.before = {}
           /\ HoldsWindows(ChunksOf(d), DefaultWindows(documents[d].content))

----------------------------------------------------------------------------
(* Properties of the document store with its search (SpecRag) *)

(* C11: every stored chunk references a Document that exists; a successful
   delete_document removes the Document and every chunk it had; and every
   row a search returns is a chunk that is stored now, of a Document that
   exists, so a chunk removed by a delete is in no later search. *)
C11_NoOrphans ==
    /\ \A c \in chunks : c.document_id \in DOMAIN documents
    /\ (lastOp.op = "delete_document" /\ lastOp.ok) =>
          /\ lastOp.doc \notin DOMAIN documents
          /\ ChunksOf(lastOp.doc) = {}
          /\ lastOp.before \cap chunks = {}
    /\ lastOp.op = "search_documents" =>
          \A i \in 1..Len(lastOp.rows) :
              /\ lastOp.rows[i].document_id \in DOMAIN documents
              /\ \E c \in chunks : c.id = lastOp.rows[i].chunk_id

C11_Witness ==
    /\ lastOp.op = "delete_document"
    /\ lastOp.ok
    /\ Cardinality(lastOp.before) >= 2
    /\ \E c \in lastOp.before : c.embedding # Null

(* C17: every row search_documents returns is a chunk with a non-NULL
   embedding of a Document of the searching user; at most limit rows are
   returned, in non-increasing order of similarity. *)
C17_SearchScoped ==
    lastOp.op = "search_documents" =>
        /\ Len(lastOp.rows) <= lastOp.limit
        /\ \A i \in 1..Len(lastOp.rows) :
              /\ \E c \in chunks :
                    /\ c.id = lastOp.rows[i].chunk_id
                    /\ c.document_id = lastOp.rows[i].document_id
                    /\ c.embedding # Null
              /\ documents[lastOp.rows[i].document_id].user_id = lastOp.user
        /\ \A i, j \in 1..Len(lastOp.rows) :
              i < j => lastOp.rows[i].similarity >= lastOp.rows[j].similarity

C17_Witness ==
    /\ lastOp.op = "search_documents"
    /\ Len(lastOp.rows) >= 1
    /\ \E c \in chunks :
          /\ c.embedding # Null
          /\ documents[c.document_id].user_id # lastOp.user

----------------------------------------------------------------------------
(* Properties of the memory store (SpecMem, SpecRecall, SpecExtract) *)

(* C12: a successful delete_chat removes the chat and leaves every Memory
   stored: one that was associated with the chat has its chat reference set
   to NULL and its content, embedding, importance, kind and owner unchanged;
   every other Memory is unchanged. *)
C12_ChatDeleteKeepsMemory ==
    (lastOp.op = "delete_chat" /\ lastOp.ok) =>
        /\ lastOp.chat \notin DOMAIN chats
        /\ Cardinality(memories) = Cardinality(lastOp.before)
        /\ \A m \in lastOp.before :
              \E n \in memories :
                  /\ n.id = m.id
                  /\ n.chat_id = IF m.chat_id = lastOp.chat THEN None
                                 ELSE m.chat_id
                  /\ n.content = m.content
                  /\ n.embedding = m.embedding
                  /\ n.importance_score = m.importance_score
                  /\ n.memory_type = m.memory_type
                  /\ n.user_id = m.user_id
                  /\ n.created_at = m.created_at

C12_Witness ==
    /\ lastOp.op = "delete_chat"
    /\ lastOp.ok
    /\ \E m \in lastOp.before :
          m.chat_id = lastOp.chat /\ m.embedding # Null
    /\ \E m \in lastOp.before : m.chat_id # lastOp.chat

(* C18: in every committed state the embedding of a Memory is the one
   generated from the content it has, or NULL. *)
C18_Claim ==
    \A m \in memories :
        m.embedding = Null \/ m.embedding = Some(Emb(m.content))

Similarity(q, m) == 1 - Distance(Emb(q), Vector(m.embedding))

(* C19: search_memories returns at most limit Memories, all of the
   searching user and matching the kind and chat filters of the request,
   in descending order of similarity; at equal similarity in descending
   order of importance, and at equal importance in descending order of
   creation time. *)
C19_Claim ==
    lastOp.op = "search_memories" =>
        LET rows == lastOp.rows
            req == lastOp.request
        IN
        /\ Len(rows) <= req.limit
        /\ \A i \in 1..Len(rows) :
              /\ rows[i].user_id = lastOp.user
              /\ req.memory_type # None => rows[i].memory_type = req.memory_type
              /\ req.chat_id # None => rows[i].chat_id = req.chat_id
        /\ \A i, j \in 1..Len(rows) :
              (i < j /\ rows[i].embedding # Null /\ rows[j].embedding # Null) =>
                  LET si == Similarity(req.query, rows[i])
                      sj == Similarity(req.query, rows[j])
                  IN
                  \/ si > sj
                  \/ /\ si = sj
                     /\ \/ rows[i].importance_score > rows[j].importance_score
                        \/ /\ rows[i].importance_score = rows[j].importance_score
                           /\ rows[i].created_at >= rows[j].created_at

(* C20: extract_memories_from_conversation never raises, and it returns the
   empty list whenever the model call failed or storing a line failed. *)
C20_ExtractSwallows ==
    lastOp.op = "extract_memories" =>
        /\ lastOp.ok
        /\ lastOp.failure # "none" => lastOp.rows = << >>

C20_Witness ==
    /\ lastOp.op = "extract_memories"
    /\ lastOp.failure = "store"
    /\ memories # lastOp.before

----------------------------------------------------------------------------
(* The augmented system prompt. *)

(* Whether the request of handler r has source s switched on: memory always
   is (main.py lines 298-301), the two others by their toggles. *)
Enabled(r, s) ==
    CASE s = "memory" -> TRUE
      [] s = "rag" -> request[r].use_rag
      [] s = "web" -> request[r].use_web_grounding

(* The labeled section the prompt of handler r is expected to carry for
   source s: none unless s is enabled and returned a non-empty context. *)
ExpectedSection(r, s) ==
    IF Enabled(r, s) /\ ctx[r][s] \notin {None, ""}
    THEN <<SectionLabel(s), ctx[r][s]>>
    ELSE << >>

(* C21: once a request has been dispatched, the system prompt handed to the
   adapter is the caller's base prompt followed by exactly the labeled
   sections of the enabled sources that returned a non-empty context, in the
   order User Memory Context, Retrieved Documents, Web Search Results; a
   disabled or empty source adds no section and does not stop the request. *)
C21_PromptSections ==
    \A r \in Handlers :
        calls[r].dispatch > 0 =>
            prompt[r] =
                (IF request[r].system_prompt = None
                 THEN << >> ELSE <<request[r].system_prompt>>)
                    \o ExpectedSection(r, "memory")
                    \o ExpectedSection(r, "rag")
                    \o ExpectedSection(r, "web")

(* A request with web grounding off and a document search that matched
   nothing completes with a prompt of the base and the memory section only. *)
C21_Witness ==
    \E r \in Handlers :
        /\ outcome[r] = "ok"
        /\ request[r].use_rag /\ ~request[r].use_web_grounding
        /\ ctx[r].rag = "" /\ ctx[r].memory = "mem"
        /\ prompt[r] = <<"base", "## User Memory Context", "mem">>

----------------------------------------------------------------------------
(* Missing provider configuration. *)

(* Whether the configuration an adapter needs is present: the Anthropic key
   for claude, the Vertex AI project for gemini and gemma, which both go
   through Vertex AI. *)
Configured(adapter) ==
    CASE adapter = "claude" -> settings.ANTHROPIC_API_KEY
      [] adapter \in {"gemini", "gemma"} -> settings.VERTEX_AI_PROJECT
      [] OTHER -> TRUE

(* C22: for every adapter, a request for a model whose adapter lacks its
   credentials or project never reaches the provider, and its dispatch ends
   with the configuration error. *)
C22_Claim ==
    \A r \in Handlers :
        (Handling(r) /\ ~Configured(AdapterOf(request[r].model)))
            => /\ calls[r].provider = 0
               /\ calls[r].dispatch > 0 => outcome[r] = "ValueError"

----------------------------------------------------------------------------
(* Title generation. *)

(* C23: generate_chat_title never raises to its caller; whatever fails in it
   (the title model call, a chat that is absent or not the caller's, the
   read of the messages), it returns the default title "New Chat". *)
C23_Claim ==
    lastOp.op = "generate_chat_title"
        => /\ lastOp.raised = "none"
           /\ lastOp.failure # "none" => lastOp.title = DefaultTitle

----------------------------------------------------------------------------
(* Immutability of messages. *)

(* C24: a committed Message never changes: in every step, each row of the
   messages table that is still there afterwards has the same role, content,
   model, token usage, metadata and creation time as before. *)
C24_Claim ==
    [][\A i \in DOMAIN messages : \A j \in DOMAIN messages' :
          messages'[j].id = messages[i].id => messages'[j] = messages[i]]_vars

----------------------------------------------------------------------------
(* What memory extraction stores. *)

Labels == {"[FACT]", "[PREFERENCE]", "[CONTEXT]"}

LabelKind(label) ==
    CASE label = "[FACT]" -> "user_fact"
      [] label = "[PREFERENCE]" -> "preference"
      [] label = "[CONTEXT]" -> "chat"

(* The lines of an answer that carry a label and more than the minimum of
   text after it. *)
Labeled(lines) ==
    SelectSeq(lines, LAMBDA l : l.label \in Labels /\ l.body.len > MinMemoryLen)

(* C25: a call of extract_memories_from_conversation in which nothing fails
   reads at most the last 10 messages and creates one Memory for exactly the
   lines of the answer that start with [FACT], [PREFERENCE] or [CONTEXT] and
   have more than 10 characters after the label, of kind user_fact,
   preference or chat and importance 0.7; no other line creates a Memory. *)
C25_Claim ==
    (lastOp.op = "extract_memories" /\ lastOp.failure = "none") =>
        LET good == Labeled(lastOp.lines) IN
        /\ lastOp.read <= TranscriptWindow
        /\ Len(lastOp.rows) = Len(good)
        /\ \A i \in 1..Len(good) :
              /\ lastOp.rows[i].content = good[i].body
              /\ lastOp.rows[i].memory_type = LabelKind(good[i].label)
              /\ lastOp.rows[i].importance_score = ExtractedImportance

----------------------------------------------------------------------------
(* What reaches the provider. *)

(* C26: for every adapter and for the streaming and the non-streaming path,
   a request that has reached the provider carried the augmented system
   prompt whenever that prompt is not empty. *)
C26_Claim ==
    \A r \in Handlers :
        (calls[r].provider > 0 /\ prompt[r] # << >>)
            => sent[r].system = prompt[r]

----------------------------------------------------------------------------
(* Concurrent requests on one chat. *)

(* Handler r has made its first write to the chat of its request (the user
   message) and not yet its last (the token count of the assistant message). *)
Writing(r) == pc[r] \in {"save_assistant", "update_tokens"}

(* C27: two requests in flight are never both in the middle of writing the
   same chat: of two concurrent non-streaming completions with the same chat
   id, at most one is between its first and its last write to that chat. *)
C27_Claim ==
    \A r \in Handlers : \A q \in Handlers \ {r} :
        ~ /\ Writing(r) /\ Writing(q)
          /\ request[r].chat_id = request[q].chat_id

----------------------------------------------------------------------------
(* Ownership of the chat a completion writes to. *)

(* The request names a chat that exists and belongs to its user. *)
OwnChat(req) ==
    /\ req.chat_id \in DOMAIN chats
    /\ chats[req.chat_id].user_id = req.user_id

(* C28: a completion request appends messages only to a chat its user owns:
   while a request whose chat id names another user's chat, or no chat, is
   handled, the message table stays as it was when the request arrived. *)
C28_Claim ==
    \A r \in Handlers :
        (Handling(r) /\ request[r].chat_id # None /\ ~OwnChat(request[r]))
            => messages = logAtStart[r]

----------------------------------------------------------------------------
(* The shape of what a completion returns. *)

(* C29: for every adapter, what AIClient.chat_completion returns for a
   request with the streaming flag set is an event sequence and never a
   unified completion object, and with the flag clear it is one unified
   completion object and never an event sequence. *)
C29_Claim ==
    \A r \in Handlers :
        (Handling(r) /\ result[r].kind # "none")
            => (request[r].stream <=> result[r].kind # "result")

----------------------------------------------------------------------------
(* What memory extraction returns against what it committed. *)

(* C30: the list extract_memories_from_conversation returns holds exactly
   the Memories the call committed; when it returns the empty list, the
   call has committed none. *)
C30_Claim ==
    lastOp.op = "extract_memories" =>
        {lastOp.rows[i] : i \in DOMAIN lastOp.rows} = memories \ lastOp.before

Next ==
    \E r \in Single :
        \/ Receive(r)
        \/ RagEmbed(r)
        \/ RagQuery(r)
        \/ WebSearch(r)
        \/ MemEmbed(r)
        \/ MemQuery(r)
        \/ Dispatch(r)
        \/ ProviderCall(r)
        \/ SaveUser(r)
        \/ SaveAssistant(r)
        \/ UpdateTokens(r)
        \/ Respond(r)
        \/ StreamOpen(r)
        \/ StreamDelta(r)
        \/ StreamEnd(r)
        \/ StreamFail(r)
        \/ Disconnect(r)
        \/ Close(r)

Spec == Init /\ [][Next]_vars
====
